---------------------------- MODULE Spec2Model ----------------------------
(***************************************************************************)
(* A model of compute-dynbackends-dev: a Fastly Compute service that       *)
(* authenticates a caller, validates and classifies a target URL, registers *)
(* a dynamic TLS backend for it and relays the request.  The repository     *)
(* holds two implementations of the same handler, js/src/index.js and       *)
(* go/main.go; both are modelled, side by side.                             *)
(*                                                                         *)
(* Strings the code inspects character by character (hostnames, URLs,       *)
(* header names, backend names) are sequences of one-character strings.     *)
(*                                                                         *)
(* Not modelled: the first statement of the Go handler, which parses        *)
(* r.URL.String() again and answers 400 when that fails; r.URL is the       *)
(* runtime's own parse of the request line, and its String() parses back.   *)
(* The calls into the runtime (Backend, Request, fetch, Send) succeed or    *)
(* fail as the environment decides.                                         *)
(***************************************************************************)
EXTENDS Integers, Sequences, FiniteSets, TLC

VARIABLES
    impl,            \* which implementation serves the request: "js" or "go"
    pc,              \* the handler's position
    configStore,     \* the Fastly config store "dynserv-key" of the service
    req,             \* the inbound request: the key and url parameters, the headers
                     \* as sent (wire) and as the handler holds them (the
                     \* JavaScript req.headers, the Go r.Header)
    apiKey,          \* handleRequest's local apiKey
    validKey,        \* handleRequest's local validKey
    targetUrlParam,  \* handleRequest's local targetUrlParam / targetURLParam
    targetUrl,       \* handleRequest's local targetUrl / targetURL
    hostname,        \* handleRequest's local hostname
    port,            \* handleRequest's local port: the number n in JavaScript,
                     \* the string s in Go
    backendName,     \* handleRequest's local backendName
    backends,        \* the dynamic backends registered with the runtime
    originRequest,   \* the outbound request being built
    sent,            \* the outbound requests handed to the runtime
    resp,            \* the upstream response (response / resp), once received
    responses,       \* the responses the handler has produced
    upstreamFailure, \* the stage at which the upstream step failed, if any
    clsHost,         \* classifier check: the hostname under classification
    clsJs,           \* classifier check: verdict of the JavaScript isPrivateHost
    clsGo,           \* classifier check: verdict of the Go isPrivateHost
    idPairs,         \* identity check: two (hostname, port) pairs
    idOut            \* identity check: the identities derived for them

handlerVars == <<impl, pc, configStore, req, apiKey, validKey, targetUrlParam,
                 targetUrl, hostname, port, backendName, backends,
                 originRequest, sent, resp, responses, upstreamFailure>>
clsVars == <<clsHost, clsJs, clsGo>>
idVars == <<idPairs, idOut>>
vars == <<handlerVars, clsVars, idVars>>

\* null / nil / "not yet assigned", for a string compared as a whole
None == "<none>"
\* the same for a string held as a sequence of characters
Null == <<"<null>">>
\* the same for the record-valued variables
NoPort == [n |-> 0, s |-> <<>>]
NoParam == [present |-> FALSE, value |-> <<>>]
NoRequestIn == [key |-> [present |-> FALSE, value |-> ""], url |-> NoParam,
                wire |-> <<>>, headers |-> <<>>, Header |-> {}]
NoURL == [ok |-> FALSE, scheme |-> <<>>, hostname |-> <<>>, port |-> <<>>,
          pathname |-> <<>>, search |-> <<>>]
NoRequest == [built |-> FALSE, path |-> <<>>, headers |-> <<>>, Header |-> {}]
NoUpstream == [status |-> 0, contentType |-> ""]
NoFailure == [stage |-> "none", message |-> ""]

---------------------------------------------------------------------------
(* Characters and strings *)

UpperLetters == <<"A","B","C","D","E","F","G","H","I","J","K","L","M",
                  "N","O","P","Q","R","S","T","U","V","W","X","Y","Z">>
LowerLetters == <<"a","b","c","d","e","f","g","h","i","j","k","l","m",
                  "n","o","p","q","r","s","t","u","v","w","x","y","z">>
DigitChars == <<"0","1","2","3","4","5","6","7","8","9">>

Range(s) == {s[i] : i \in DOMAIN s}

UpperSet == Range(UpperLetters)
LowerSet == Range(LowerLetters)
DigitSet == {"0","1","2","3","4","5","6","7","8","9"}

IsUpper(c) == c \in UpperSet
IsLower(c) == c \in LowerSet
IsLetter(c) == IsUpper(c) \/ IsLower(c)
IsDigit(c) == c \in DigitSet

IndexIn(c, s) == CHOOSE i \in DOMAIN s : s[i] = c

LowerOf == [c \in UpperSet |-> LowerLetters[IndexIn(c, UpperLetters)]]
UpperOf == [c \in LowerSet |-> UpperLetters[IndexIn(c, LowerLetters)]]
ValueOf == [c \in DigitSet |-> IndexIn(c, DigitChars) - 1]

ToLowerChar(c) == IF IsUpper(c) THEN LowerOf[c] ELSE c
ToUpperChar(c) == IF IsLower(c) THEN UpperOf[c] ELSE c

\* String.prototype.toLowerCase / strings.ToLower, on ASCII
ToLower(s) == [i \in DOMAIN s |-> ToLowerChar(s[i])]

DigitVal(c) == ValueOf[c]

AllDigits(s) == \A i \in DOMAIN s : IsDigit(s[i])

\* the value of a string of decimal digits
RECURSIVE DecValue(_)
DecValue(s) ==
    IF s = <<>> THEN 0
    ELSE 10 * DecValue(SubSeq(s, 1, Len(s) - 1)) + DigitVal(s[Len(s)])

\* the decimal digits of a natural number, without leading zeros
RECURSIVE Dec(_)
Dec(n) == IF n < 10 THEN <<DigitChars[n + 1]>>
          ELSE Dec(n \div 10) \o <<DigitChars[(n % 10) + 1]>>

HasPrefix(s, p) == Len(s) >= Len(p) /\ SubSeq(s, 1, Len(p)) = p
HasSuffix(s, p) == Len(s) >= Len(p) /\ SubSeq(s, Len(s) - Len(p) + 1, Len(s)) = p

\* the first position of character c in s, or 0
IndexOf(s, c) ==
    IF \E i \in DOMAIN s : s[i] = c
    THEN CHOOSE i \in DOMAIN s : s[i] = c /\ \A j \in 1..(i - 1) : s[j] # c
    ELSE 0

\* the last position of character c in s, or 0
LastIndexOf(s, c) ==
    IF \E i \in DOMAIN s : s[i] = c
    THEN CHOOSE i \in DOMAIN s : s[i] = c /\ \A j \in (i + 1)..Len(s) : s[j] # c
    ELSE 0

\* strings.Split(s, sep) for a one-character separator
RECURSIVE Split(_, _)
Split(s, sep) ==
    LET i == IndexOf(s, sep) IN
    IF i = 0 THEN <<s>>
    ELSE <<SubSeq(s, 1, i - 1)>> \o Split(SubSeq(s, i + 1, Len(s)), sep)

---------------------------------------------------------------------------
(* Host classifier: isPrivateHost *)

Str_localhost == <<"l","o","c","a","l","h","o","s","t">>
Str_localhost_localdomain ==
    <<"l","o","c","a","l","h","o","s","t",".","l","o","c","a","l","d","o","m","a","i","n">>
Str_v6loopback == <<":",":","1">>
Str_v6loopback_bracketed == <<"[",":",":","1","]">>

internalPrefixes ==
    { <<"i","n","t","e","r","n","a","l",".">>,
      <<"i","n","t","r","a","n","e","t",".">>,
      <<"p","r","i","v","a","t","e",".">>,
      <<"c","o","r","p",".">>,
      <<"l","a","n",".">> }
internalSuffixes ==
    { <<".","i","n","t","e","r","n","a","l">>,
      <<".","l","o","c","a","l">>,
      <<".","l","o","c","a","l","h","o","s","t">> }

\* the patterns /^internal\./i ... /\.localhost$/i, tested against lowerHost
MatchesInternalPattern(lowerHost) ==
    \/ \E p \in internalPrefixes : HasPrefix(ToLower(lowerHost), p)
    \/ \E s \in internalSuffixes : HasSuffix(ToLower(lowerHost), s)

\* hostname.match(/^(\d{1,3})\.(\d{1,3})\.(\d{1,3})\.(\d{1,3})$/): the four
\* captured groups, or <<>> when the string does not match
ipv4RegexMatch(host) ==
    LET parts == Split(host, ".") IN
    IF /\ Len(parts) = 4
       /\ \A i \in 1..4 : Len(parts[i]) \in 1..3 /\ AllDigits(parts[i])
    THEN parts
    ELSE <<>>

\* the largest value of an octet
MaxOctet == 255

\* the JavaScript range tests on a matched address (loopback, private,
\* link-local, broadcast, current network)
JsRangeCheck(a, b, c, d) ==
    \/ a = 127
    \/ a = 10
    \/ (a = 172 /\ b >= 16 /\ b <= 31)
    \/ (a = 192 /\ b = 168)
    \/ (a = 169 /\ b = 254)
    \/ (a = 255 /\ b = 255 /\ c = 255 /\ d = 255)
    \/ a = 0

\* the Go range tests on the first two octets of a valid address
GoRangeCheck_NoLinkLocal(a, b) ==
    \/ a = 127
    \/ a = 10
    \/ (a = 172 /\ b >= 16 /\ b <= 31)
    \/ (a = 192 /\ b = 168)
    \/ a = 0

GoRangeCheck(a, b) ==
    \/ a = 127
    \/ a = 10
    \/ (a = 172 /\ b >= 16 /\ b <= 31)
    \/ (a = 192 /\ b = 168)
    \/ (a = 169 /\ b = 254)
    \/ a = 0

isPrivateHostJS(host) ==
    LET lowerHost == ToLower(host)
        match == ipv4RegexMatch(host)
        a == DecValue(match[1])
        b == DecValue(match[2])
        c == DecValue(match[3])
        d == DecValue(match[4])
    IN
    IF lowerHost = Str_localhost \/ lowerHost = Str_localhost_localdomain THEN TRUE
    ELSE IF match # <<>> /\ (a > MaxOctet \/ b > MaxOctet \/ c > MaxOctet \/ d > MaxOctet)
         THEN TRUE
    ELSE IF match # <<>> /\ JsRangeCheck(a, b, c, d) THEN TRUE
    ELSE IF lowerHost = Str_v6loopback \/ lowerHost = Str_v6loopback_bracketed THEN TRUE
    ELSE MatchesInternalPattern(lowerHost)

\* strconv.Atoi: an optional sign, then one or more decimal digits
Atoi(p) ==
    LET signed == Len(p) > 0 /\ p[1] \in {"+", "-"}
        digits == IF signed THEN SubSeq(p, 2, Len(p)) ELSE p
    IN
    IF digits = <<>> \/ ~AllDigits(digits) THEN [err |-> TRUE, n |-> 0]
    ELSE [err |-> FALSE,
          n |-> IF signed /\ p[1] = "-" THEN 0 - DecValue(digits) ELSE DecValue(digits)]

isPrivateHostGo(host) ==
    LET lowerHost == ToLower(host)
        parts == Split(host, ".")
        valid == \A i \in 1..4 :
                    ~Atoi(parts[i]).err /\ Atoi(parts[i]).n >= 0
                                         /\ Atoi(parts[i]).n <= MaxOctet
        a == Atoi(parts[1]).n
        b == Atoi(parts[2]).n
    IN
    IF lowerHost = Str_localhost \/ lowerHost = Str_localhost_localdomain THEN TRUE
    ELSE IF lowerHost = Str_v6loopback \/ lowerHost = Str_v6loopback_bracketed THEN TRUE
    ELSE IF Len(parts) = 4 /\ valid /\ GoRangeCheck(a, b) THEN TRUE
    ELSE \/ \E p \in internalPrefixes : HasPrefix(lowerHost, p)
         \/ \E s \in internalSuffixes : HasSuffix(lowerHost, s)

---------------------------------------------------------------------------
(* Target URL parsing.  new URL(s) and url.Parse(s) are modelled on the     *)
(* URLs the handler is given here: scheme, "//", host, optional ":port",    *)
(* optional path and query; no userinfo, IPv6 literal, escape or fragment.  *)

Str_https == <<"h","t","t","p","s">>
Str_http == <<"h","t","t","p">>

\* the port a URL without a port stands for
DefaultPort == 443

\* the first position at or after which s holds a character of set cs, or
\* Len(s) + 1
FirstOf(s, cs) ==
    IF \E i \in DOMAIN s : s[i] \in cs
    THEN CHOOSE i \in DOMAIN s : s[i] \in cs /\ \A j \in 1..(i - 1) : s[j] \notin cs
    ELSE Len(s) + 1

IsSchemeChar(c) == IsLetter(c) \/ IsDigit(c) \/ c \in {"+", "-", "."}

\* what the parsers give when they fail (an exception, an error)
FailedURL == NoURL

\* s without its leading slashes
RECURSIVE StripSlashes(_)
StripSlashes(s) ==
    IF s # <<>> /\ s[1] \in {"/", "\\"} THEN StripSlashes(SubSeq(s, 2, Len(s))) ELSE s

\* the value of an IPv4 number of the URL standard: octal after a leading
\* zero, decimal otherwise; -1 when it is not a number
RECURSIVE OctValue(_)
OctValue(s) ==
    IF s = <<>> THEN 0
    ELSE 8 * OctValue(SubSeq(s, 1, Len(s) - 1)) + DigitVal(s[Len(s)])

Ipv4Number(s) ==
    IF s = <<>> \/ ~AllDigits(s) THEN 0 - 1
    ELSE IF Len(s) > 1 /\ s[1] = "0"
         THEN IF \E i \in DOMAIN s : s[i] \in {"8", "9"} THEN 0 - 1 ELSE OctValue(s)
    ELSE DecValue(s)

RECURSIVE Pow256(_)
Pow256(n) == IF n = 0 THEN 1 ELSE 256 * Pow256(n - 1)

\* the k base-256 digits of v, most significant first
RECURSIVE Bytes(_, _)
Bytes(v, k) == IF k = 0 THEN <<>> ELSE Bytes(v \div 256, k - 1) \o <<Dec(v % 256)>>

\* the URL standard's host parser on a host whose last label is a number:
\* every part but the last is one octet and the last fills the octets that
\* remain; the address as a dotted quad, or <<>> on failure.  (A one-part
\* address is below 256^4 whenever its value is a number of the model.)
JsIpv4Host(host) ==
    LET parts == Split(host, ".")
        n == Len(parts)
        nums == [i \in 1..n |-> Ipv4Number(parts[i])]
        octets == [i \in 1..(n - 1) |-> Dec(nums[i])] \o Bytes(nums[n], 5 - n)
    IN
    IF n > 4 \/ (\E i \in 1..n : nums[i] < 0) THEN <<>>
    ELSE IF \E i \in 1..(n - 1) : nums[i] > 255 THEN <<>>
    ELSE IF n > 1 /\ nums[n] >= Pow256(5 - n) THEN <<>>
    ELSE octets[1] \o <<".">> \o octets[2] \o <<".">> \o octets[3] \o <<".">> \o octets[4]

\* new URL(raw): a record of the fields the handler reads
JsParseURL(raw) ==
    LET colon == IndexOf(raw, ":")
        scheme == ToLower(SubSeq(raw, 1, colon - 1))
        rest == StripSlashes(SubSeq(raw, colon + 1, Len(raw)))
        authEnd == FirstOf(rest, {"/", "?"})
        authority == SubSeq(rest, 1, authEnd - 1)
        tail == SubSeq(rest, authEnd, Len(rest))
        hostEnd == FirstOf(authority, {":"})
        rawHost == ToLower(SubSeq(authority, 1, hostEnd - 1))
        rawPort == SubSeq(authority, hostEnd + 1, Len(authority))
        lastLabel == Split(rawHost, ".")[Len(Split(rawHost, "."))]
        numeric == lastLabel # <<>> /\ AllDigits(lastLabel)
        host == IF numeric THEN JsIpv4Host(rawHost) ELSE rawHost
        default == IF scheme = Str_https THEN DefaultPort ELSE 80
        query == FirstOf(tail, {"?"})
        path == SubSeq(tail, 1, query - 1)
        search == SubSeq(tail, query, Len(tail))
    IN
    IF colon <= 1 \/ ~IsLetter(raw[1])
       \/ (\E i \in 1..(colon - 1) : ~IsSchemeChar(raw[i]))
    THEN FailedURL
    ELSE IF scheme \notin {Str_https, Str_http}
    THEN [FailedURL EXCEPT !.ok = TRUE, !.scheme = scheme]
    ELSE IF host = <<>> THEN FailedURL
    ELSE IF ~AllDigits(rawPort) \/ DecValue(rawPort) > 65535 THEN FailedURL
    ELSE [ok |-> TRUE,
          scheme |-> scheme,
          hostname |-> host,
          port |-> IF rawPort = <<>> \/ DecValue(rawPort) = default
                   THEN <<>> ELSE Dec(DecValue(rawPort)),
          pathname |-> IF path = <<>> THEN <<"/">> ELSE path,
          search |-> IF search = <<"?">> THEN <<>> ELSE search]

\* ":" followed by digits, or nothing (net/url validOptionalPort)
validOptionalPort(p) ==
    p = <<>> \/ (p[1] = ":" /\ AllDigits(SubSeq(p, 2, Len(p))))

\* url.Parse(raw), with Hostname() and Port() taken from its Host
GoParseURL(raw) ==
    LET stop == FirstOf(raw, {c \in Range(raw) : ~IsSchemeChar(c)})
        hasScheme == /\ raw # <<>>
                     /\ IsLetter(raw[1])
                     /\ stop <= Len(raw)
                     /\ raw[stop] = ":"
        scheme == IF hasScheme THEN ToLower(SubSeq(raw, 1, stop - 1)) ELSE <<>>
        afterScheme == IF hasScheme THEN SubSeq(raw, stop + 1, Len(raw)) ELSE raw
        query == FirstOf(afterScheme, {"?"})
        rest == SubSeq(afterScheme, 1, query - 1)
        rawQuery == SubSeq(afterScheme, query + 1, Len(afterScheme))
        hasAuthority == HasPrefix(rest, <<"/", "/">>)
        afterSlashes == SubSeq(rest, 3, Len(rest))
        authEnd == FirstOf(afterSlashes, {"/"})
        authority == IF hasAuthority THEN SubSeq(afterSlashes, 1, authEnd - 1) ELSE <<>>
        path == IF hasAuthority THEN SubSeq(afterSlashes, authEnd, Len(afterSlashes))
                ELSE IF scheme # <<>> /\ ~HasPrefix(rest, <<"/">>) THEN <<>>
                ELSE rest
        colon == LastIndexOf(authority, ":")
        colonPort == IF colon = 0 THEN <<>> ELSE SubSeq(authority, colon, Len(authority))
        firstSegment == SubSeq(rest, 1, FirstOf(rest, {"/"}) - 1)
    IN
    IF raw # <<>> /\ raw[1] = ":" THEN FailedURL
    ELSE IF scheme = <<>> /\ ~HasPrefix(rest, <<"/">>) /\ IndexOf(firstSegment, ":") # 0
    THEN FailedURL
    ELSE IF ~validOptionalPort(colonPort) THEN FailedURL
    ELSE [ok |-> TRUE,
          scheme |-> scheme,
          hostname |-> IF colon = 0 THEN authority ELSE SubSeq(authority, 1, colon - 1),
          port |-> IF colon = 0 THEN <<>> ELSE SubSeq(authority, colon + 1, Len(authority)),
          pathname |-> path,
          search |-> rawQuery]

---------------------------------------------------------------------------
(* Upstream identity: the dynamic backend's name and target *)

Str_dyn == <<"d","y","n","_">>

\* hostname.replace(/[^a-zA-Z0-9]/, "_"): without the g flag only the first
\* match is replaced
Sanitize_FirstOnly(h) ==
    [i \in DOMAIN h |->
        IF ~(IsLetter(h[i]) \/ IsDigit(h[i]))
           /\ \A j \in 1..(i - 1) : IsLetter(h[j]) \/ IsDigit(h[j])
        THEN "_" ELSE h[i]]

\* hostname.replace(/[^a-zA-Z0-9]/g, "_") / re.ReplaceAllString(hostname, "_")
Sanitize(h) == [i \in DOMAIN h |-> IF IsLetter(h[i]) \/ IsDigit(h[i]) THEN h[i] ELSE "_"]

\* `dyn_${...}_${port}`, port a number
JsBackendName(h, p) == Str_dyn \o Sanitize(h) \o <<"_">> \o Dec(p)
\* `${hostname}:${port}`
JsBackendTarget(h, p) == h \o <<":">> \o Dec(p)

\* fmt.Sprintf("dyn_%s_%s", sanitizedHostname, port), port a string
GoBackendName(h, p) == Str_dyn \o Sanitize(h) \o <<"_">> \o p
\* fmt.Sprintf("%s:%s", hostname, port)
GoBackendTarget(h, p) == h \o <<":">> \o p

---------------------------------------------------------------------------
(* Headers *)

Hdr_host == <<"h","o","s","t">>
Hdr_Host == <<"H","o","s","t">>
Hdr_x_forwarded_for == <<"x","-","f","o","r","w","a","r","d","e","d","-","f","o","r">>
Hdr_x_forwarded_host == <<"x","-","f","o","r","w","a","r","d","e","d","-","h","o","s","t">>
Hdr_x_forwarded_proto == <<"x","-","f","o","r","w","a","r","d","e","d","-","p","r","o","t","o">>

\* fsthttp.CanonicalHeaderKey: the first letter and every letter after a
\* hyphen in upper case, the others in lower case
CanonicalHeaderKey(n) ==
    [i \in DOMAIN n |-> IF i = 1 \/ n[i - 1] = "-" THEN ToUpperChar(n[i])
                        ELSE ToLowerChar(n[i])]

\* The JavaScript Headers object: a list of entries, names in lower case.
\* req.headers as the runtime builds it from the headers on the wire.
JsHeadersOf(wire) ==
    [i \in DOMAIN wire |-> [name |-> ToLower(wire[i].name), value |-> wire[i].value]]

\* Headers.prototype.delete(name)
JsHeadersDelete(h, name) ==
    SelectSeq(h, LAMBDA e : e.name # ToLower(name))

\* Headers.prototype.set(name, value): the first entry of that name takes
\* the value and the others go; without one, the entry is appended
JsHeadersSet(h, name, value) ==
    LET n == ToLower(name)
        first == CHOOSE i \in DOMAIN h :
                    h[i].name = n /\ \A j \in 1..(i - 1) : h[j].name # n
    IN
    IF \E i \in DOMAIN h : h[i].name = n
    THEN SubSeq(h, 1, first - 1) \o <<[name |-> n, value |-> value]>>
         \o JsHeadersDelete(SubSeq(h, first + 1, Len(h)), n)
    ELSE Append(h, [name |-> n, value |-> value])

\* The Go fsthttp.Header, a map from key to the list of its values: a set
\* of entries, one for each key.  r.Header as the runtime builds it from the
\* headers on the wire, by Header.Add, which makes the key canonical.
GoHeaderOf(wire) ==
    { [key |-> k,
       values |-> LET mine == SelectSeq(wire, LAMBDA e : CanonicalHeaderKey(e.name) = k)
                  IN [i \in DOMAIN mine |-> mine[i].value]]
      : k \in {CanonicalHeaderKey(wire[i].name) : i \in DOMAIN wire} }

\* the test of the copy loop: names that are not forwarded
GoSkipHeader_CaseSensitive(name) ==
    \/ name = Hdr_x_forwarded_for
    \/ name = Hdr_x_forwarded_host
    \/ name = Hdr_x_forwarded_proto
    \/ name = Hdr_host

GoSkipHeader(name) ==
    LET nameLower == ToLower(name) IN
    \/ nameLower = Hdr_x_forwarded_for
    \/ nameLower = Hdr_x_forwarded_host
    \/ nameLower = Hdr_x_forwarded_proto
    \/ nameLower = Hdr_host

\* the copy loop: originReq.Header.Add(name, value) for every value of every
\* header that is not skipped
GoCopyHeaders(rHeader) ==
    LET kept == {e \in rHeader : ~GoSkipHeader(e.key)} IN
    { [key |-> k,
       values |-> (CHOOSE e \in kept : CanonicalHeaderKey(e.key) = k).values]
      : k \in {CanonicalHeaderKey(e.key) : e \in kept} }

\* Header.Set(key, value)
GoHeaderSet(h, key, value) ==
    {e \in h : e.key # CanonicalHeaderKey(key)}
    \cup {[key |-> CanonicalHeaderKey(key), values |-> <<value>>]}

\* the headers of the JavaScript origin request: a copy of req.headers,
\* then set("Host", hostname) and the three deletes
JsOriginHeaders(reqHeaders, host) ==
    JsHeadersDelete(
        JsHeadersDelete(
            JsHeadersDelete(JsHeadersSet(reqHeaders, Hdr_Host, host),
                            Hdr_x_forwarded_for),
            Hdr_x_forwarded_host),
        Hdr_x_forwarded_proto)

\* the headers of the Go origin request: the copy loop, then Set("Host", hostname)
GoOriginHeaders(rHeader, host) ==
    GoHeaderSet(GoCopyHeaders(rHeader), Hdr_Host, host)

---------------------------------------------------------------------------
(* Values shared by the specifications *)

\* the handler before a request has arrived
HandlerIdle ==
    /\ pc = "idle"
    /\ req = NoRequestIn
    /\ apiKey = None
    /\ validKey = None
    /\ targetUrlParam = Null
    /\ targetUrl = NoURL
    /\ hostname = Null
    /\ port = NoPort
    /\ backendName = Null
    /\ backends = {}
    /\ originRequest = NoRequest
    /\ sent = <<>>
    /\ resp = NoUpstream
    /\ responses = <<>>
    /\ upstreamFailure = NoFailure

\* no service is deployed, no store consulted
NoService == impl = None /\ configStore = [available |-> FALSE, key |-> None]

ClsIdle == clsHost = Null /\ clsJs = None /\ clsGo = None
IdIdle == idPairs = <<>> /\ idOut = <<>>

---------------------------------------------------------------------------
(* The request handler, handleRequest, of both implementations *)

\* URLSearchParams.get(name): the value, or null
JsGet(param, null) == IF param.present THEN param.value ELSE null
\* url.Values.Get(name): the value, or the empty string
GoGet(param, empty) == IF param.present THEN param.value ELSE empty

Key_testing == "testing"

\* new ConfigStore("dynserv-key").get("key"), or "testing" when the
\* constructor throws
JsValidKey(store) == IF store.available THEN store.key ELSE Key_testing

\* !apiKey || apiKey !== validKey
JsKeyRejected_NoEmptyTest(k, v) == k # v

JsKeyRejected(k, v) == k = None \/ k = "" \/ k # v

\* apiKey != "testing"
GoKeyRejected(k) == k # Key_testing

\* !targetUrlParam
JsUrlMissing(u) == u = Null \/ u = <<>>
\* targetURLParam == ""
GoUrlMissing(u) == u = <<>>

\* targetUrl.protocol !== "https:"
JsSchemeRejected_Never(url) == FALSE

JsSchemeRejected(url) == url.scheme \o <<":">> # Str_https \o <<":">>

\* targetURL.Scheme != "https"
GoSchemeRejected(url) == url.scheme # Str_https

\* if (isPrivateHost(hostname)), in each handler
JsHostRejected_Never(h) == FALSE

JsHostRejected(h) == isPrivateHostJS(h)

GoHostRejected(h) == isPrivateHostGo(h)

\* targetUrl.port ? parseInt(targetUrl.port, 10) : 443
JsPort(url) == IF url.port # <<>> THEN DecValue(url.port) ELSE DefaultPort

\* port := targetURL.Port(); if port == "" { port = "443" }
GoPort(url) == IF url.port = <<>> THEN <<"4","4","3">> ELSE url.port

\* targetUrl.pathname + targetUrl.search
JsOriginUrl(url) == url.pathname \o url.search

\* targetURL.Path, "?" and RawQuery when there is one, "/" when empty
GoOriginPath(url) ==
    LET withQuery == IF url.search # <<>> THEN url.pathname \o <<"?">> \o url.search
                     ELSE url.pathname
    IN IF withQuery = <<>> THEN <<"/">> ELSE withQuery

\* a JSON error response: new Response(JSON.stringify({...}), {status,
\* headers: {"Content-Type": "application/json"}}), writeJSONError and
\* writeJSONErrorWithTarget
JsonError(status, error, message, usage, details, target) ==
    [kind |-> "error", status |-> status, contentType |-> "application/json",
     error |-> error, message |-> message, usage |-> usage,
     details |-> details, target |-> target, complete |-> TRUE]

\* the upstream response as relayed to the caller
Relayed(upstream, complete) ==
    [kind |-> "relay", status |-> upstream.status, contentType |-> upstream.contentType,
     error |-> None, message |-> None, usage |-> None,
     details |-> None, target |-> Null, complete |-> complete]

Unauthorized == JsonError(403, "Unauthorized", "Invalid or missing API key", None, None, Null)
MissingUrl == JsonError(400, "Missing 'url' query parameter",
                        None, "Add ?url=https://example.com/path to your request", None, Null)
JsInvalidUrl == JsonError(400, "Invalid URL provided", None, None, "Invalid URL", Null)
GoInvalidUrl == JsonError(400, "Invalid URL provided", "parse error", None, None, Null)
UnsupportedScheme == JsonError(400, "Only https URLs are supported", None,
                               "Use https:// URLs (e.g., ?url=https://example.com/path)",
                               None, Null)
Forbidden == JsonError(403, "Forbidden",
                       "Requests to private or internal hosts are not allowed",
                       None, None, Null)
BadGateway(error, details, target) == JsonError(502, error, None, None, details, target)

\* the catch block of the JavaScript handler
JsUpstreamError_NormalisedTarget(e, target) ==
    BadGateway("Failed to fetch from origin", e, ToLower(target))

JsUpstreamError(e, target) == BadGateway("Failed to fetch from origin", e, target)

\* what the runtime reports when the upstream step fails
BackendErrors == {"backend registration failed"}
RequestErrors == {"request could not be built"}
SendErrors == {"connection refused", "tls handshake failed", "first byte timeout"}

\* what an origin answers
UpstreamResponses ==
    { [status |-> 200, contentType |-> "text/html"],
      [status |-> 502, contentType |-> "application/json"] }

\* return new Response(...) / the write of a response followed by return
Respond_NoReturn(r) == responses' = Append(responses, r) /\ pc' = pc

Respond(r) == responses' = Append(responses, r) /\ pc' = "done"

----------------------------------------------------------------------------
(* js/src/index.js *)

JsAuthCheck ==
    /\ impl = "js" /\ pc = "auth"
    /\ apiKey' = JsGet(req.key, None)
    /\ validKey' = JsValidKey(configStore)
    /\ IF JsKeyRejected(apiKey', validKey')
       THEN Respond(Unauthorized)
       ELSE pc' = "param" /\ UNCHANGED responses
    /\ UNCHANGED <<impl, configStore, req, targetUrlParam, targetUrl, hostname, port,
                   backendName, backends, originRequest, sent, resp, upstreamFailure,
                   clsVars, idVars>>

JsParamCheck ==
    /\ impl = "js" /\ pc = "param"
    /\ targetUrlParam' = JsGet(req.url, Null)
    /\ IF JsUrlMissing(targetUrlParam')
       THEN Respond(MissingUrl)
       ELSE pc' = "parse" /\ UNCHANGED responses
    /\ UNCHANGED <<impl, configStore, req, apiKey, validKey, targetUrl, hostname, port,
                   backendName, backends, originRequest, sent, resp, upstreamFailure,
                   clsVars, idVars>>

JsParse ==
    /\ impl = "js" /\ pc = "parse"
    /\ IF JsParseURL(targetUrlParam).ok
       THEN /\ targetUrl' = JsParseURL(targetUrlParam)
            /\ pc' = "scheme"
            /\ UNCHANGED responses
       ELSE /\ Respond(JsInvalidUrl)
            /\ UNCHANGED targetUrl
    /\ UNCHANGED <<impl, configStore, req, apiKey, validKey, targetUrlParam, hostname,
                   port, backendName, backends, originRequest, sent, resp,
                   upstreamFailure, clsVars, idVars>>

JsSchemeCheck ==
    /\ impl = "js" /\ pc = "scheme"
    /\ IF JsSchemeRejected(targetUrl)
       THEN Respond(UnsupportedScheme)
       ELSE pc' = "classify" /\ UNCHANGED responses
    /\ UNCHANGED <<impl, configStore, req, apiKey, validKey, targetUrlParam, targetUrl,
                   hostname, port, backendName, backends, originRequest, sent, resp,
                   upstreamFailure, clsVars, idVars>>

JsClassify ==
    /\ impl = "js" /\ pc = "classify"
    /\ port' = [n |-> JsPort(targetUrl), s |-> <<>>]
    /\ hostname' = targetUrl.hostname
    /\ IF JsHostRejected(hostname')
       THEN Respond(Forbidden)
       ELSE pc' = "backend" /\ UNCHANGED responses
    /\ UNCHANGED <<impl, configStore, req, apiKey, validKey, targetUrlParam, targetUrl,
                   backendName, backends, originRequest, sent, resp, upstreamFailure,
                   clsVars, idVars>>

\* new Backend({...}) returns or throws
JsCreateBackend ==
    /\ impl = "js" /\ pc = "backend"
    /\ backendName' = JsBackendName(hostname, port.n)
    /\ \/ /\ backends' = backends \cup
                 {[name |-> backendName', target |-> JsBackendTarget(hostname, port.n)]}
          /\ pc' = "build"
          /\ UNCHANGED <<responses, upstreamFailure>>
       \/ \E e \in BackendErrors :
            /\ upstreamFailure' = [stage |-> "backend", message |-> e]
            /\ Respond(JsUpstreamError(e, targetUrlParam))
            /\ UNCHANGED backends
    /\ UNCHANGED <<impl, configStore, req, apiKey, validKey, targetUrlParam, targetUrl,
                   hostname, port, originRequest, sent, resp, clsVars, idVars>>

\* new Request(originUrl, {...}) returns or throws; then the header edits
JsBuildRequest ==
    /\ impl = "js" /\ pc = "build"
    /\ \/ /\ originRequest' = [built |-> TRUE,
                               path |-> JsOriginUrl(targetUrl),
                               headers |-> JsOriginHeaders(req.headers, hostname),
                               Header |-> {}]
          /\ pc' = "send"
          /\ UNCHANGED <<responses, upstreamFailure>>
       \/ \E e \in RequestErrors :
            /\ upstreamFailure' = [stage |-> "request", message |-> e]
            /\ Respond(JsUpstreamError(e, targetUrlParam))
            /\ UNCHANGED originRequest
    /\ UNCHANGED <<impl, configStore, req, apiKey, validKey, targetUrlParam, targetUrl,
                   hostname, port, backendName, backends, sent, resp, clsVars, idVars>>

\* await fetch(originRequest, {backend, cacheOverride}) resolves or rejects
JsFetch ==
    /\ impl = "js" /\ pc = "send"
    /\ sent' = Append(sent, [backend |-> backendName, request |-> originRequest])
    /\ \/ \E r \in UpstreamResponses :
            /\ resp' = r
            /\ pc' = "relay"
            /\ UNCHANGED <<responses, upstreamFailure>>
       \/ \E e \in SendErrors :
            /\ upstreamFailure' = [stage |-> "send", message |-> e]
            /\ Respond(JsUpstreamError(e, targetUrlParam))
            /\ UNCHANGED resp
    /\ UNCHANGED <<impl, configStore, req, apiKey, validKey, targetUrlParam, targetUrl,
                   hostname, port, backendName, backends, originRequest, clsVars, idVars>>

\* return response: the runtime streams the body, which arrives whole or not
JsReturnResponse ==
    /\ impl = "js" /\ pc = "relay"
    /\ \E complete \in BOOLEAN :
         /\ Respond(Relayed(resp, complete))
         /\ upstreamFailure' = IF complete THEN upstreamFailure
                               ELSE [stage |-> "transfer", message |-> "body truncated"]
    /\ UNCHANGED <<impl, configStore, req, apiKey, validKey, targetUrlParam, targetUrl,
                   hostname, port, backendName, backends, originRequest, sent, resp,
                   clsVars, idVars>>

----------------------------------------------------------------------------
(* go/main.go *)

GoAuthCheck ==
    /\ impl = "go" /\ pc = "auth"
    /\ apiKey' = GoGet(req.key, "")
    /\ IF GoKeyRejected(apiKey')
       THEN Respond(Unauthorized)
       ELSE pc' = "param" /\ UNCHANGED responses
    /\ UNCHANGED <<impl, configStore, req, validKey, targetUrlParam, targetUrl, hostname,
                   port, backendName, backends, originRequest, sent, resp,
                   upstreamFailure, clsVars, idVars>>

GoParamCheck ==
    /\ impl = "go" /\ pc = "param"
    /\ targetUrlParam' = GoGet(req.url, <<>>)
    /\ IF GoUrlMissing(targetUrlParam')
       THEN Respond(MissingUrl)
       ELSE pc' = "parse" /\ UNCHANGED responses
    /\ UNCHANGED <<impl, configStore, req, apiKey, validKey, targetUrl, hostname, port,
                   backendName, backends, originRequest, sent, resp, upstreamFailure,
                   clsVars, idVars>>

GoParse ==
    /\ impl = "go" /\ pc = "parse"
    /\ IF GoParseURL(targetUrlParam).ok
       THEN /\ targetUrl' = GoParseURL(targetUrlParam)
            /\ pc' = "scheme"
            /\ UNCHANGED responses
       ELSE /\ Respond(GoInvalidUrl)
            /\ UNCHANGED targetUrl
    /\ UNCHANGED <<impl, configStore, req, apiKey, validKey, targetUrlParam, hostname,
                   port, backendName, backends, originRequest, sent, resp,
                   upstreamFailure, clsVars, idVars>>

GoSchemeCheck ==
    /\ impl = "go" /\ pc = "scheme"
    /\ IF GoSchemeRejected(targetUrl)
       THEN Respond(UnsupportedScheme)
       ELSE pc' = "classify" /\ UNCHANGED responses
    /\ UNCHANGED <<impl, configStore, req, apiKey, validKey, targetUrlParam, targetUrl,
                   hostname, port, backendName, backends, originRequest, sent, resp,
                   upstreamFailure, clsVars, idVars>>

GoClassify ==
    /\ impl = "go" /\ pc = "classify"
    /\ hostname' = targetUrl.hostname
    /\ port' = [n |-> 0, s |-> GoPort(targetUrl)]
    /\ IF GoHostRejected(hostname')
       THEN Respond(Forbidden)
       ELSE pc' = "backend" /\ UNCHANGED responses
    /\ UNCHANGED <<impl, configStore, req, apiKey, validKey, targetUrlParam, targetUrl,
                   backendName, backends, originRequest, sent, resp, upstreamFailure,
                   clsVars, idVars>>

\* fsthttp.RegisterDynamicBackend(backendName, target, opts) returns a
\* backend or an error
GoRegisterBackend ==
    /\ impl = "go" /\ pc = "backend"
    /\ backendName' = GoBackendName(hostname, port.s)
    /\ \/ /\ backends' = backends \cup
                 {[name |-> backendName', target |-> GoBackendTarget(hostname, port.s)]}
          /\ pc' = "build"
          /\ UNCHANGED <<responses, upstreamFailure>>
       \/ \E e \in BackendErrors :
            /\ upstreamFailure' = [stage |-> "backend", message |-> e]
            /\ Respond(BadGateway("Failed to create backend", e, targetUrlParam))
            /\ UNCHANGED backends
    /\ UNCHANGED <<impl, configStore, req, apiKey, validKey, targetUrlParam, targetUrl,
                   hostname, port, originRequest, sent, resp, clsVars, idVars>>

\* fsthttp.NewRequest returns a request or an error; then the header copy,
\* Header.Set("Host", hostname) and CacheOptions.Pass
GoBuildRequest ==
    /\ impl = "go" /\ pc = "build"
    /\ \/ /\ originRequest' = [built |-> TRUE,
                               path |-> GoOriginPath(targetUrl),
                               headers |-> <<>>,
                               Header |-> GoOriginHeaders(req.Header, hostname)]
          /\ pc' = "send"
          /\ UNCHANGED <<responses, upstreamFailure>>
       \/ \E e \in RequestErrors :
            /\ upstreamFailure' = [stage |-> "request", message |-> e]
            /\ Respond(BadGateway("Failed to create origin request", e, targetUrlParam))
            /\ UNCHANGED originRequest
    /\ UNCHANGED <<impl, configStore, req, apiKey, validKey, targetUrlParam, targetUrl,
                   hostname, port, backendName, backends, sent, resp, clsVars, idVars>>

\* originReq.Send(ctx, backend.Name()) returns a response or an error
GoSend ==
    /\ impl = "go" /\ pc = "send"
    /\ sent' = Append(sent, [backend |-> backendName, request |-> originRequest])
    /\ \/ \E r \in UpstreamResponses :
            /\ resp' = r
            /\ pc' = "relay"
            /\ UNCHANGED <<responses, upstreamFailure>>
       \/ \E e \in SendErrors :
            /\ upstreamFailure' = [stage |-> "send", message |-> e]
            /\ Respond(BadGateway("Failed to fetch from origin", e, targetUrlParam))
            /\ UNCHANGED resp
    /\ UNCHANGED <<impl, configStore, req, apiKey, validKey, targetUrlParam, targetUrl,
                   hostname, port, backendName, backends, originRequest, clsVars, idVars>>

\* the response headers, w.WriteHeader(resp.StatusCode) and io.Copy(w,
\* resp.Body), whose error is dropped: the body arrives whole or not
GoRelay ==
    /\ impl = "go" /\ pc = "relay"
    /\ \E complete \in BOOLEAN :
         /\ Respond(Relayed(resp, complete))
         /\ upstreamFailure' = IF complete THEN upstreamFailure
                               ELSE [stage |-> "transfer", message |-> "body truncated"]
    /\ UNCHANGED <<impl, configStore, req, apiKey, validKey, targetUrlParam, targetUrl,
                   hostname, port, backendName, backends, originRequest, sent, resp,
                   clsVars, idVars>>

---------------------------------------------------------------------------
(* Spec: one service instance handles one request *)

\* the most headers an inbound request carries
MaxHeaders == 2

Stores ==
    { [available |-> FALSE, key |-> None],
      [available |-> TRUE, key |-> "secret"],
      [available |-> TRUE, key |-> None] }

KeyParams ==
    { [present |-> FALSE, value |-> ""],
      [present |-> TRUE, value |-> ""],
      [present |-> TRUE, value |-> "testing"],
      [present |-> TRUE, value |-> "secret"] }

Url_example_path ==
    <<"h","t","t","p","s",":","/","/","e","x","a","m","p","l","e",".","c","o","m","/","p","a","t","h","?","x","=","1">>
Url_example_upper ==
    <<"h","t","t","p","s",":","/","/","E","x","a","m","p","l","e",".","C","O","M">>
Url_example_8443 ==
    <<"H","T","T","P","S",":","/","/","e","x","a","m","p","l","e",".","c","o","m",":","8","4","4","3","/","p">>
Url_example_443 ==
    <<"h","t","t","p","s",":","/","/","e","x","a","m","p","l","e",".","c","o","m",":","4","4","3","/">>
Url_8_8_8_8 ==
    <<"h","t","t","p","s",":","/","/","8",".","8",".","8",".","8","/">>
Url_metadata ==
    <<"h","t","t","p","s",":","/","/","1","6","9",".","2","5","4",".","1","6","9",".","2","5","4","/","l","a","t","e","s","t","/","m","e","t","a","-","d","a","t","a">>
Url_http_metadata ==
    <<"h","t","t","p",":","/","/","1","6","9",".","2","5","4",".","1","6","9",".","2","5","4","/">>
Url_http_example ==
    <<"h","t","t","p",":","/","/","e","x","a","m","p","l","e",".","c","o","m">>
Url_loopback ==
    <<"h","t","t","p","s",":","/","/","1","2","7",".","0",".","0",".","1","/">>
Url_999 ==
    <<"h","t","t","p","s",":","/","/","9","9","9",".","1",".","1",".","1","/">>
Url_short_loopback ==
    <<"h","t","t","p","s",":","/","/","1","2","7",".","1","/">>
Url_bad_port ==
    <<"h","t","t","p","s",":","/","/","e","x","a","m","p","l","e",".","c","o","m",":","x","/">>
Url_no_scheme ==
    <<"e","x","a","m","p","l","e",".","c","o","m">>

RawUrls ==
    { Url_example_path, Url_example_upper, Url_example_8443, Url_example_443,
      Url_8_8_8_8, Url_metadata, Url_http_metadata, Url_http_example, Url_loopback,
      Url_999, Url_short_loopback,
      Url_bad_port, Url_no_scheme, <<>> }

UrlParams ==
    {[present |-> TRUE, value |-> u] : u \in RawUrls} \cup {NoParam}

WirePairs ==
    { [name |-> Hdr_Host, value |-> <<"e","d","g","e">>],
      [name |-> <<"X","-","F","o","r","w","a","r","d","e","d","-","F","o","r">>, value |-> <<"9",".","9",".","9",".","9">>],
      [name |-> <<"x","-","f","o","r","w","a","r","d","e","d","-","h","o","s","t">>, value |-> <<"e","d","g","e">>],
      [name |-> <<"X","-","F","O","R","W","A","R","D","E","D","-","P","R","O","T","O">>, value |-> <<"h","t","t","p">>],
      [name |-> <<"A","c","c","e","p","t">>, value |-> <<"t","e","x","t">>] }

WireHeaders == UNION {[1..n -> WirePairs] : n \in 0..MaxHeaders}

\* an instance of one implementation, in a service with or without the
\* config store, before the fetch event
Init ==
    /\ impl \in {"js", "go"}
    /\ configStore \in Stores
    /\ HandlerIdle
    /\ ClsIdle
    /\ IdIdle

\* the fetch event: the runtime hands the instance its request
Receive ==
    /\ pc = "idle"
    /\ \E k \in KeyParams, u \in UrlParams, w \in WireHeaders :
         req' = [key |-> k, url |-> u, wire |-> w,
                 headers |-> IF impl = "js" THEN JsHeadersOf(w) ELSE <<>>,
                 Header |-> IF impl = "go" THEN GoHeaderOf(w) ELSE {}]
    /\ pc' = "auth"
    /\ UNCHANGED <<impl, configStore, apiKey, validKey, targetUrlParam, targetUrl, hostname, port,
                   backendName, backends, originRequest, sent, resp, responses,
                   upstreamFailure, clsVars, idVars>>

\* the steps of the two handlers
Step ==
    \/ JsAuthCheck \/ JsParamCheck \/ JsParse \/ JsSchemeCheck \/ JsClassify
    \/ JsCreateBackend \/ JsBuildRequest \/ JsFetch \/ JsReturnResponse
    \/ GoAuthCheck \/ GoParamCheck \/ GoParse \/ GoSchemeCheck \/ GoClassify
    \/ GoRegisterBackend \/ GoBuildRequest \/ GoSend \/ GoRelay

Next == Receive \/ Step

Spec == Init /\ [][Next]_vars

---------------------------------------------------------------------------
(* Properties of the handler, under Spec *)

Received == pc # "idle"
Done == pc = "done"

\* the key the serving implementation compares the key parameter with
HandlerValidKey == IF impl = "js" THEN JsValidKey(configStore) ELSE Key_testing

\* the key parameter is missing, empty or not the valid key
KeyBad ==
    \/ ~req.key.present
    \/ req.key.value = ""
    \/ req.key.value # HandlerValidKey

\* the url parameter is missing or empty
UrlAbsent == ~req.url.present \/ req.url.value = <<>>

\* the url parameter as the serving implementation's URL parser reads it
Parsed == IF impl = "js" THEN JsParseURL(req.url.value) ELSE GoParseURL(req.url.value)

SchemeBad == Parsed.scheme # Str_https

\* the verdict of the serving implementation's classifier on the resolved hostname
HostBlocked ==
    IF impl = "js" THEN isPrivateHostJS(Parsed.hostname)
    ELSE isPrivateHostGo(Parsed.hostname)

\* the request passes the key, url-present, URL-parse and https-scheme checks
PassesAdmission == Received /\ ~KeyBad /\ ~UrlAbsent /\ Parsed.ok /\ ~SchemeBad

IsError(r, status, error) ==
    /\ r.kind = "error"
    /\ r.status = status
    /\ r.error = error
    /\ r.contentType = "application/json"

\* C1: for a request that passes the key, url, parse and scheme checks and
\* whose resolved hostname the classifier blocks, at no point of the
\* execution is a backend registered, an origin request built or sent, and
\* the handler ends with the single response 403 "Forbidden".
C1_BlockedHostNoNetwork ==
    PassesAdmission /\ HostBlocked =>
        /\ backends = {}
        /\ ~originRequest.built
        /\ sent = <<>>
        /\ Done => Len(responses) = 1 /\ IsError(responses[1], 403, "Forbidden")

C1_Witness ==
    /\ Done
    /\ PassesAdmission
    /\ req.url.value = Url_metadata
    /\ IsError(responses[1], 403, "Forbidden")
    /\ sent = <<>>

UpstreamCallFailed ==
    upstreamFailure.stage \in {"backend", "request", "send"}

C6_ExactlyOneResponse ==
    /\ ~Done => responses = <<>>
    /\ (Received /\ ~Done) =>
           pc \in {"auth", "param", "parse", "scheme", "classify", "backend",
                   "build", "send", "relay"}
    /\ Done => /\ Len(responses) = 1
               /\ responses[1].kind \in {"relay", "error"}
               /\ responses[1].kind = "relay" <=> (resp # NoUpstream /\ ~UpstreamCallFailed)

C6_Witness ==
    /\ Done
    /\ Len(responses) = 1
    /\ responses[1].kind = "relay"
    /\ ~responses[1].complete

WireValues(wire, n) ==
    LET mine == SelectSeq(wire, LAMBDA e : ToLower(e.name) = n)
    IN [i \in DOMAIN mine |-> mine[i].value]
ListValues(h, n) ==
    LET mine == SelectSeq(h, LAMBDA e : ToLower(e.name) = n)
    IN [i \in DOMAIN mine |-> mine[i].value]
MapValues(h, n) ==
    IF \E e \in h : ToLower(e.key) = n
    THEN (CHOOSE e \in h : ToLower(e.key) = n).values
    ELSE <<>>
OutboundValues(request, n) ==
    IF impl = "js" THEN ListValues(request.headers, n) ELSE MapValues(request.Header, n)
OutboundNames(request) ==
    IF impl = "js" THEN {ToLower(request.headers[i].name) : i \in DOMAIN request.headers}
    ELSE {ToLower(e.key) : e \in request.Header}
ForwardedNames == {Hdr_x_forwarded_for, Hdr_x_forwarded_host, Hdr_x_forwarded_proto}

\* what C8 asks of one outbound request
HeaderPolicyHolds(request) ==
    /\ impl = "go" =>
          \A e1, e2 \in request.Header : ToLower(e1.key) = ToLower(e2.key) => e1 = e2
    /\ \A n \in OutboundNames(request) \cup {ToLower(req.wire[i].name) : i \in DOMAIN req.wire}
                \cup {Hdr_host} :
          OutboundValues(request, n) =
             IF n \in ForwardedNames THEN <<>>
             ELSE IF n = Hdr_host THEN <<hostname>>
             ELSE WireValues(req.wire, n)

\* C8: the request built for, and sent to, the upstream carries no
\* x-forwarded-for/-host/-proto header in any letter case, exactly one Host
\* header whose value is the resolved hostname, and every other inbound
\* header with its values unchanged; the inbound header set stays as received.
C8_HeaderPolicy ==
    /\ originRequest.built => HeaderPolicyHolds(originRequest)
    /\ \A i \in DOMAIN sent : HeaderPolicyHolds(sent[i].request)
    /\ Received => /\ impl = "js" => req.headers = JsHeadersOf(req.wire)
                   /\ impl = "go" => req.Header = GoHeaderOf(req.wire)

C8_Witness ==
    /\ impl = "go"
    /\ Len(sent) = 1
    /\ Len(req.wire) = 2
    /\ ToLower(req.wire[1].name) = Hdr_x_forwarded_proto
    /\ req.wire[1].name # Hdr_x_forwarded_proto
    /\ req.wire[2].name = Hdr_Host
    /\ MapValues(sent[1].request.Header, Hdr_host) = <<hostname>>

\* C9: the valid key is the store's value when the store is available and
\* "testing" only when it is not, and a request is authenticated exactly when
\* its key is non-empty and equal to that valid key.
C9_ValidKeyFromStore ==
    Done =>
        LET valid == IF configStore.available THEN configStore.key ELSE "testing"
            authenticated == ~IsError(responses[1], 403, "Unauthorized")
        IN authenticated <=>
              (req.key.present /\ req.key.value # "" /\ req.key.value = valid)

---------------------------------------------------------------------------
(* SpecClassify: isPrivateHost of both implementations applied to hostnames *)

Dot == <<".">>
Quad(g1, g2, g3, g4) == g1 \o Dot \o g2 \o Dot \o g3 \o Dot \o g4

\* groups that are not an octet in canonical decimal form
OddGroups ==
    { <<"2","5","6">>, <<"9","9","9">>, <<"1","2","3","4">>, <<"0","1","2","7">>,
      <<"0","1","0">>, <<"+","1","2","7">>, <<"-","0">>, <<"a">>, <<>> }

GroupsA == {Dec(n) : n \in 0..MaxOctet} \cup OddGroups
GroupsB == {Dec(n) : n \in {0, 8, 15, 16, 31, 32, 168, 254, 255}} \cup {<<"9","9","9">>}
GroupsC == {Dec(n) : n \in {8, 169, 255}} \cup {<<"2","5","6">>}
GroupsD == {Dec(n) : n \in {8, 254, 255}}

Host_example_com == <<"e","x","a","m","p","l","e",".","c","o","m">>
Host_8_8_8_8 == Quad(Dec(8), Dec(8), Dec(8), Dec(8))
Host_metadata == Quad(Dec(169), Dec(254), Dec(169), Dec(254))
Host_999_1_1_1 == Quad(<<"9","9","9">>, Dec(1), Dec(1), Dec(1))

NamedHosts ==
    { Host_example_com, Host_999_1_1_1,
      Str_localhost, Str_localhost_localdomain, Str_v6loopback, Str_v6loopback_bracketed,
      <<"L","O","C","A","L","H","O","S","T">>,
      <<"I","n","t","e","r","n","a","l",".","E","x","a","m","p","l","e",".","c","o","m">>,
      <<"i","n","t","e","r","n","a","l",".","e","x","a","m","p","l","e",".","c","o","m">>,
      <<"d","b",".","l","o","c","a","l">>, <<"a",".","L","O","C","A","L","H","O","S","T">>,
      <<"l","a","n">>, <<"c","o","r","p",".","x">>,
      <<"1",".","2",".","3">>, <<"1","0",".","2",".","3",".","4",".","5">>,
      <<"a",".","b">>, <<"a","_","b">>, <<>> }

ClassifyInputs ==
    {Quad(g1, g2, g3, g4) : g1 \in GroupsA, g2 \in GroupsB, g3 \in GroupsC, g4 \in GroupsD}
    \cup NamedHosts

\* a classification as the handler reads it: true is blocked
Verdict(blocked) == IF blocked THEN "blocked" ELSE "allowed"

InitClassify ==
    /\ NoService
    /\ HandlerIdle
    /\ IdIdle
    /\ clsHost \in ClassifyInputs
    /\ clsJs = None
    /\ clsGo = None

ClassifyJs ==
    /\ clsHost # Null
    /\ clsJs = None
    /\ clsJs' = Verdict(isPrivateHostJS(clsHost))
    /\ UNCHANGED <<clsHost, clsGo, handlerVars, idVars>>

ClassifyGo ==
    /\ clsHost # Null
    /\ clsGo = None
    /\ clsGo' = Verdict(isPrivateHostGo(clsHost))
    /\ UNCHANGED <<clsHost, clsJs, handlerVars, idVars>>

NextClassify == ClassifyJs \/ ClassifyGo

SpecClassify == InitClassify /\ [][NextClassify]_vars

\* the hostname under classification is four groups of one to three digits,
\* each at most 255
ClsIsDottedQuad ==
    LET parts == Split(clsHost, ".") IN
    /\ Len(parts) = 4
    /\ \A i \in 1..4 : /\ Len(parts[i]) \in 1..3
                       /\ AllDigits(parts[i])
                       /\ DecValue(parts[i]) <= 255

\* the ranges the specification lists: 127.x.x.x, 10.x.x.x, 172.16-31.x.x,
\* 192.168.x.x, 169.254.x.x, 0.x.x.x
ClsInListedRange ==
    LET parts == Split(clsHost, ".")
        a == DecValue(parts[1])
        b == DecValue(parts[2])
    IN
    /\ ClsIsDottedQuad
    /\ \/ a \in {127, 10, 0}
       \/ (a = 172 /\ b \in 16..31)
       \/ (a = 192 /\ b = 168)
       \/ (a = 169 /\ b = 254)

\* C3: every dotted quad in a listed private range is blocked by both
\* implementations of isPrivateHost, whatever its remaining octets, and
\* 8.8.8.8 and example.com are allowed by both.
C3_ListedRangesBlocked ==
    /\ clsHost # Null /\ ClsInListedRange =>
          /\ clsJs # None => clsJs = "blocked"
          /\ clsGo # None => clsGo = "blocked"
    /\ clsHost \in {Host_8_8_8_8, Host_example_com} =>
          /\ clsJs # None => clsJs = "allowed"
          /\ clsGo # None => clsGo = "allowed"

C3_Witness ==
    /\ clsHost = Host_metadata
    /\ clsJs = "blocked"
    /\ clsGo = "blocked"

\* the hostname under classification is four groups of digits of which at
\* least one exceeds 255
ClsIsMalformedQuad ==
    LET parts == Split(clsHost, ".") IN
    /\ Len(parts) = 4
    /\ \A i \in 1..4 : parts[i] # <<>> /\ AllDigits(parts[i])
    /\ \E i \in 1..4 : DecValue(parts[i]) > 255

\* C4: a hostname of four numeric groups with a group above 255 is blocked
\* by isPrivateHost (fail safe), never allowed.
C4_MalformedQuadBlocked ==
    clsHost # Null /\ ClsIsMalformedQuad =>
        /\ clsJs # None => clsJs = "blocked"
        /\ clsGo # None => clsGo = "blocked"

\* C11: the JavaScript and the Go isPrivateHost give the same verdict on every
\* hostname: once both have classified it, blocked by one is blocked by the
\* other (quads with an octet above 255, 255.255.255.255 and four-part names
\* with non-numeric groups included).
C11_SameVerdict ==
    (clsJs # None /\ clsGo # None) => clsJs = clsGo

---------------------------------------------------------------------------
(* SpecDerive: the upstream identity of two (hostname, port) pairs that the *)
(* handler can resolve from a url parameter                                 *)

MaxHostLen == 3

HostAlphabet == {"a", ".", "_"}

DeriveHosts ==
    UNION {[1..n -> HostAlphabet] : n \in 1..MaxHostLen}
    \cup { <<"a",".","b">>, <<"a","_","b">>, <<"a","-","b">>, <<"A","1",".","b">>,
           <<"a","1">>, <<"1">>, <<"a","_","1">> }

\* the port as written in the url parameter; <<>> for none
DerivePorts == { <<>>, <<"2">>, <<"1","2">>, <<"0","2">> }

\* https://host[:port]/
DeriveUrl(h, p) ==
    Str_https \o <<":","/","/">> \o h \o (IF p = <<>> THEN <<>> ELSE <<":">> \o p) \o <<"/">>

\* the (hostname, port) pairs the handler of implementation i resolves
ResolvedPairs(i) ==
    { IF i = "js"
      THEN [hostname |-> u.hostname, port |-> [n |-> JsPort(u), s |-> <<>>]]
      ELSE [hostname |-> u.hostname, port |-> [n |-> 0, s |-> GoPort(u)]]
      : u \in { v \in { IF i = "js" THEN JsParseURL(DeriveUrl(h, p))
                        ELSE GoParseURL(DeriveUrl(h, p))
                        : h \in DeriveHosts, p \in DerivePorts } : v.ok } }

InitDerive ==
    /\ HandlerIdle
    /\ ClsIdle
    /\ configStore = [available |-> FALSE, key |-> None]
    /\ \E i \in {"js", "go"} :
          /\ impl = i
          /\ idPairs \in ResolvedPairs(i) \X ResolvedPairs(i)
    /\ idOut = <<>>

\* backendName and the Backend's target, for each pair
DeriveJs ==
    /\ impl = "js"
    /\ idOut = <<>>
    /\ idOut' = [k \in 1..2 |->
                   [name |-> JsBackendName(idPairs[k].hostname, idPairs[k].port.n),
                    target |-> JsBackendTarget(idPairs[k].hostname, idPairs[k].port.n)]]
    /\ UNCHANGED <<handlerVars, clsVars, idPairs>>

\* backendName and BackendOptions' target, for each pair
DeriveGo ==
    /\ impl = "go"
    /\ idOut = <<>>
    /\ idOut' = [k \in 1..2 |->
                   [name |-> GoBackendName(idPairs[k].hostname, idPairs[k].port.s),
                    target |-> GoBackendTarget(idPairs[k].hostname, idPairs[k].port.s)]]
    /\ UNCHANGED <<handlerVars, clsVars, idPairs>>

NextDerive == DeriveJs \/ DeriveGo

SpecDerive == InitDerive /\ [][NextDerive]_vars

\* the port of a pair as text
PortText(pair) == IF impl = "js" THEN Dec(pair.port.n) ELSE pair.port.s

IsTokenChar(c) == c \in UpperSet \cup LowerSet \cup DigitSet \cup {"_"}

\* name is "dyn_", then the hostname with every character that is not a
\* letter or a digit replaced by "_", then "_", then the port
IsTokenOf(name, pair) ==
    LET h == pair.hostname
        pt == PortText(pair)
    IN
    /\ Len(name) = 4 + Len(h) + 1 + Len(pt)
    /\ SubSeq(name, 1, 4) = <<"d","y","n","_">>
    /\ \A k \in DOMAIN h :
          name[4 + k] = IF h[k] \in UpperSet \cup LowerSet \cup DigitSet THEN h[k] ELSE "_"
    /\ name[5 + Len(h)] = "_"
    /\ SubSeq(name, 6 + Len(h), Len(name)) = pt

\* two hostnames are equal after the replacement
SameAfterReplacement(h1, h2) ==
    /\ Len(h1) = Len(h2)
    /\ \A k \in DOMAIN h1 :
          \/ h1[k] = h2[k]
          \/ /\ h1[k] \notin UpperSet \cup LowerSet \cup DigitSet
             /\ h2[k] \notin UpperSet \cup LowerSet \cup DigitSet

\* C10: the name token of a (hostname, port) pair is dyn_ + the hostname with
\* every character outside [A-Za-z0-9] replaced by _ + _ + the port, so it
\* holds only letters, digits and _; the target is hostname:port; equal pairs
\* get equal identities; and two pairs get the same token exactly when their
\* ports are equal and their hostnames are equal after the replacement.
C10_IdentityDerivation ==
    idOut # <<>> =>
        /\ \A k \in 1..2 :
              /\ IsTokenOf(idOut[k].name, idPairs[k])
              /\ \A j \in DOMAIN idOut[k].name : IsTokenChar(idOut[k].name[j])
              /\ idOut[k].target = idPairs[k].hostname \o <<":">> \o PortText(idPairs[k])
        /\ idPairs[1] = idPairs[2] => idOut[1] = idOut[2]
        /\ idOut[1].name = idOut[2].name <=>
              /\ PortText(idPairs[1]) = PortText(idPairs[2])
              /\ SameAfterReplacement(idPairs[1].hostname, idPairs[2].hostname)

C10_Witness ==
    /\ idOut # <<>>
    /\ idPairs[1].hostname = <<"a",".","b">>
    /\ idPairs[2].hostname = <<"a","_","b">>
    /\ idOut[1].name = idOut[2].name
    /\ idOut[1].name = <<"d","y","n","_","a","_","b","_","4","4","3">>
    /\ idOut[1].target # idOut[2].target

=============================================================================
